---- MODULE Spec2Model ----
(***************************************************************************)
(* SkillForge progression engine: task completion (single and bulk), skill *)
(* progression, prerequisite unlocking, user XP / level / streak and       *)
(* achievement granting, over a data store with statement-level atomicity  *)
(* (single completion) and a READ COMMITTED transaction (bulk completion). *)
(***************************************************************************)
EXTENDS Integers, Sequences, FiniteSets, Bags, TLC

VARIABLES
    tasks,            \* Task table: task id -> row (DOMAIN = existing tasks)
    skills,           \* Skill table: skill id -> row
    users,            \* User table: user id -> row
    activities,       \* Activity table: bag of rows (append-only log)
    userAchievements, \* UserAchievement table: set of <<userId, achievementId>>
    now,              \* wall clock, in hours
    pc,               \* per request handler: position in the route handler
    loc,              \* per request handler: local variables of the handler
    result,           \* per request handler: response of the finished request
    pre,              \* per request handler: the store as it was when the request arrived
    reqs,             \* per request handler: number of requests started
    req,              \* per request handler: the request being served
    ticks,            \* number of clock advances so far
    call,             \* a call of a library function: its name and arguments
    ret               \* the value the library call returned

vars == <<tasks, skills, users, activities, userAchievements, now, pc, loc, result, pre, reqs, req, ticks, call, ret>>
store == <<tasks, skills, users, activities, userAchievements>>
lib == <<call, ret>>

-----------------------------------------------------------------------------
(* Bounds of the model *)

MaxReqs == 2          \* requests one handler serves one after the other (sequential runs)
MaxTicks == 1         \* clock advances
MaxHour == 75         \* latest time, in hours, of a call of calculateStreak
MaxStreak == 2        \* largest streak value handed to calculateStreak
MaxUserLevel == 14    \* largest user level of a level round trip
MaxSkillLevel == 6    \* largest skill level and maxLevel of a level round trip

-----------------------------------------------------------------------------
(* Fixture: two users; u1 owns tree t1 with skills A, B, C (B requires A   *)
(* and C), u2 owns tree t2 with skill D.  Task n1 does not exist at first  *)
(* and can be created with POST /api/tasks.                                *)

Procs == {1, 2}
Users == {"u1", "u2"}
SessionUser(p) == "u1"
TreeIds == {"t1", "t2"}
TreeOwner(tr) == IF tr = "t1" THEN "u1" ELSE "u2"
SkillIds == {"A", "B", "C", "D"}
SkillTree(s) == IF s = "D" THEN "t2" ELSE "t1"
SkillOwner(s) == TreeOwner(SkillTree(s))
Prerequisites(s) == IF s = "B" THEN {"A", "C"} ELSE {}
Dependents(s) == {d \in SkillIds : s \in Prerequisites(d)}
TaskIds == {"a1", "a2", "b1", "c1", "d1", "n1"}
NewTaskId == "n1"
NewTaskXPs == {20}
NewTaskSkills == {"A"}
MaxLevelDefault == 10
NoScore == 0          \* qualityScore = null
NoDate == -1          \* lastActiveAt = null

SkillStatus == {"LOCKED", "AVAILABLE", "IN_PROGRESS", "COMPLETED", "MASTERED"}

\* what the quality evaluator may answer: a failure, or a score with a suggested XP
SuggestedXPs == {-30, 80}
QualityScores == {7}
TickSteps == {24, 50}

-----------------------------------------------------------------------------
(* lib/gamification: XP and leveling formulas *)

RECURSIVE Pow(_, _)
Pow(b, e) == IF e <= 0 THEN 1 ELSE b * Pow(b, e - 1)

\* Math.floor(100 * Math.pow(1.5, level - 1))
xpForUserLevel(level) ==
    IF level <= 1 THEN 0 ELSE (100 * Pow(3, level - 1)) \div Pow(2, level - 1)

RECURSIVE totalXpForUserLevelFrom(_, _)
totalXpForUserLevelFrom(i, level) ==
    IF i > level THEN 0 ELSE xpForUserLevel(i) + totalXpForUserLevelFrom(i + 1, level)
totalXpForUserLevel(level) == totalXpForUserLevelFrom(2, level)

RECURSIVE userLevelLoop(_, _, _)
userLevelLoop(level, xpSum, totalXp) ==
    IF xpSum + xpForUserLevel(level + 1) <= totalXp
    THEN userLevelLoop(level + 1, xpSum + xpForUserLevel(level + 1), totalXp)
    ELSE level
calculateUserLevel(totalXp) == userLevelLoop(1, 0, totalXp)

\* Math.floor(50 * Math.pow(1.3, level - 1))
xpForSkillLevel(level) ==
    IF level <= 1 THEN 0 ELSE (50 * Pow(13, level - 1)) \div Pow(10, level - 1)

RECURSIVE totalXpForSkillLevelFrom(_, _)
totalXpForSkillLevelFrom(i, level) ==
    IF i > level THEN 0 ELSE xpForSkillLevel(i) + totalXpForSkillLevelFrom(i + 1, level)
totalXpForSkillLevel(level) == totalXpForSkillLevelFrom(2, level)

RECURSIVE skillLevelLoop(_, _, _, _)
skillLevelLoop(level, xpSum, currentXp, maxLevel) ==
    IF level < maxLevel /\ xpSum + xpForSkillLevel(level + 1) <= currentXp
    THEN skillLevelLoop(level + 1, xpSum + xpForSkillLevel(level + 1), currentXp, maxLevel)
    ELSE level
\* the loop allowed one level past the cap
calculateSkillLevelPastCap(currentXp, maxLevel) == skillLevelLoop(1, 0, currentXp, maxLevel + 1)

calculateSkillLevel(currentXp, maxLevel) == skillLevelLoop(1, 0, currentXp, maxLevel)

-----------------------------------------------------------------------------
(* lib/gamification: streak logic.  Dates are hours; a calendar day is 24h *)

Max(a, b) == IF a >= b THEN a ELSE b

\* the grace window taken as strictly less than 48 hours
doesContinueStreakStrict(lastActivityDate, newActivityDate) ==
    newActivityDate - lastActivityDate < 48

doesContinueStreak(lastActivityDate, newActivityDate) ==
    newActivityDate - lastActivityDate <= 48

isNewDay(date1, date2) == (date1 \div 24) # (date2 \div 24)

calculateStreak(lastActivityDate, currentStreak, longestStreak, activityDate) ==
    IF lastActivityDate = NoDate
    THEN [currentStreak |-> 1, longestStreak |-> Max(1, longestStreak), streakBroken |-> FALSE]
    ELSE IF ~isNewDay(lastActivityDate, activityDate)
    THEN [currentStreak |-> currentStreak, longestStreak |-> longestStreak, streakBroken |-> FALSE]
    ELSE IF doesContinueStreak(lastActivityDate, activityDate)
    THEN [currentStreak |-> currentStreak + 1,
          longestStreak |-> Max(currentStreak + 1, longestStreak),
          streakBroken |-> FALSE]
    ELSE [currentStreak |-> 1, longestStreak |-> longestStreak, streakBroken |-> TRUE]

-----------------------------------------------------------------------------
(* lib/gamification: achievement rules *)

ACHIEVEMENT_DEFINITIONS ==
    <<"first-skill", "first-tree", "first-task", "streak-7", "skills-10", "level-10",
      "streak-30", "skills-50", "tree-complete", "streak-100", "level-50", "skills-100">>

\* data: [user, skillTrees, skills, tasks]; skills and tasks are the rows of
\* the caller's trees, as functions id -> row
CompletedSkillCount(data) ==
    Cardinality({s \in DOMAIN data.skills : data.skills[s].completedAt})

checkCondition(id, data) ==
    CASE id = "first-skill" -> CompletedSkillCount(data) >= 1
      [] id = "first-tree" -> Cardinality(data.skillTrees) >= 1
      [] id = "first-task" ->
            Cardinality({t \in DOMAIN data.tasks : data.tasks[t].completedAt}) >= 1
      [] id = "streak-7" -> data.user.currentStreak >= 7
      [] id = "skills-10" -> CompletedSkillCount(data) >= 10
      [] id = "level-10" -> data.user.level >= 10
      [] id = "streak-30" -> data.user.currentStreak >= 30
      [] id = "skills-50" -> CompletedSkillCount(data) >= 50
      [] id = "tree-complete" ->
            \E tr \in data.skillTrees :
                LET treeSkills == {s \in DOMAIN data.skills : SkillTree(s) = tr}
                IN  /\ treeSkills # {}
                    /\ \A s \in treeSkills :
                          data.skills[s].status \in {"COMPLETED", "MASTERED"}
      [] id = "streak-100" -> data.user.currentStreak >= 100
      [] id = "level-50" -> data.user.level >= 50
      [] id = "skills-100" -> CompletedSkillCount(data) >= 100
      [] OTHER -> FALSE

\* the earned ids not skipped
checkNewAchievementsAgain(data, earnedAchievementIds) ==
    SelectSeq(ACHIEVEMENT_DEFINITIONS, LAMBDA id : checkCondition(id, data))

checkNewAchievements(data, earnedAchievementIds) ==
    SelectSeq(ACHIEVEMENT_DEFINITIONS,
              LAMBDA id : id \notin earnedAchievementIds /\ checkCondition(id, data))

-----------------------------------------------------------------------------
(* Store rows and the initial store *)

TaskRow(skillId, xpReward) ==
    [skillId |-> skillId, xpReward |-> xpReward, completedAt |-> FALSE,
     qualityScore |-> NoScore, aiFeedback |-> FALSE]

SkillRow(status) ==
    [currentXP |-> 0, currentLevel |-> 1, maxLevel |-> MaxLevelDefault,
     status |-> status, completedAt |-> FALSE]

UserRow ==
    [totalXP |-> 0, level |-> 1, currentStreak |-> 0, longestStreak |-> 0,
     lastActiveAt |-> NoDate]

InitTasks ==
    [t \in TaskIds \ {NewTaskId} |->
        CASE t = "a1" -> TaskRow("A", 50)
          [] t = "a2" -> TaskRow("A", 50)
          [] t = "b1" -> TaskRow("B", 100)
          [] t = "c1" -> TaskRow("C", 70)
          [] t = "d1" -> TaskRow("D", 40)]

\* tree creation gives a skill the status AVAILABLE or LOCKED; no route
\* writes IN_PROGRESS, a value of the SkillStatus enum that the completion
\* route tests for, so a row holding it was written outside these routes
InitSkills(cStatus) ==
    [s \in SkillIds |->
        CASE s = "A" -> SkillRow("AVAILABLE")
          [] s = "B" -> SkillRow("LOCKED")
          [] s = "C" -> SkillRow(cStatus)
          [] s = "D" -> SkillRow("AVAILABLE")]

Store == [tasks |-> tasks, skills |-> skills, users |-> users,
          activities |-> activities, userAchievements |-> userAchievements]

NoStore == [tasks |-> <<>>, skills |-> <<>>, users |-> <<>>,
            activities |-> EmptyBag, userAchievements |-> {}]

NoReq == [kind |-> "none", taskId |-> "none", taskIds |-> {}, submission |-> FALSE,
          treeId |-> "none"]
SingleReq(taskId, submission) ==
    [kind |-> "single", taskId |-> taskId, taskIds |-> {}, submission |-> submission,
     treeId |-> "none"]
BulkReq(taskIds) ==
    [kind |-> "bulk", taskId |-> "none", taskIds |-> taskIds, submission |-> FALSE,
     treeId |-> "none"]
DeleteReq(treeId) ==
    [kind |-> "delete", taskId |-> "none", taskIds |-> {}, submission |-> FALSE,
     treeId |-> treeId]

NoCall == [fn |-> "none"]
NoRet == [fn |-> "none"]

NoStreak == [currentStreak |-> 0, longestStreak |-> 0, streakBroken |-> FALSE]

NoLoc ==
    [kind |-> "none", taskId |-> "none", submission |-> FALSE,
     snapTasks |-> <<>>, snapSkills |-> <<>>,
     xpAwarded |-> 0, qualityScore |-> NoScore, aiFeedback |-> FALSE, evalFailed |-> FALSE,
     skillId |-> "none", newSkillStatus |-> "none",
     deps |-> {}, dep |-> "none", unlockedSkills |-> {},
     user |-> UserRow, newTotalXP |-> 0, newLevel |-> 1, streak |-> NoStreak,
     newAch |-> <<>>, granted |-> {},
     incomplete |-> {}, totalXP |-> 0, pendingSkills |-> {}, updatedSkills |-> {},
     txTasks |-> {}, txSkillIds |-> {}, txSkills |-> <<>>,
     treeId |-> "none", treeSkills |-> {}, xpToDeduct |-> 0, tasksCount |-> 0,
     date |-> NoDate]

Init ==
    /\ tasks = InitTasks
    /\ \E cStatus \in {"AVAILABLE", "IN_PROGRESS"} : skills = InitSkills(cStatus)
    /\ users = [u \in Users |-> UserRow]
    /\ activities = EmptyBag
    /\ userAchievements = {}
    /\ now = 10
    /\ pc = [p \in Procs |-> "idle"]
    /\ loc = [p \in Procs |-> NoLoc]
    /\ result = [p \in Procs |-> "none"]
    /\ pre = [p \in Procs |-> NoStore]
    /\ req = [p \in Procs |-> NoReq]
    /\ reqs = [p \in Procs |-> 0]
    /\ ticks = 0
    /\ call = NoCall
    /\ ret = NoRet

-----------------------------------------------------------------------------
(* Helpers shared by the route handlers *)

\* the SkillTree rows: a tree of the fixture exists as long as its skills do
Trees == {SkillTree(s) : s \in DOMAIN skills}

TaskOwner(tbl, t) == SkillOwner(tbl[t].skillId)
TasksOfSkill(tbl, s) == {t \in DOMAIN tbl : tbl[t].skillId = s}

RECURSIVE SumXP(_, _)
SumXP(tbl, ts) ==
    IF ts = {} THEN 0
    ELSE LET t == CHOOSE x \in ts : TRUE IN tbl[t].xpReward + SumXP(tbl, ts \ {t})

IsDone(st) == st \in {"COMPLETED", "MASTERED"}

\* row locks held by the open transaction of another handler
TaskLocked(p, t) == \E q \in Procs \ {p} : t \in loc[q].txTasks
SkillLocked(p, s) == \E q \in Procs \ {p} : s \in loc[q].txSkillIds

Activity(type, userId, skillId, taskId, xpGained) ==
    [type |-> type, userId |-> userId, skillId |-> skillId, taskId |-> taskId,
     xpGained |-> xpGained]

Goto(p, label) == pc' = [pc EXCEPT ![p] = label]
Respond(p, res) ==
    /\ pc' = [pc EXCEPT ![p] = "done"]
    /\ result' = [result EXCEPT ![p] = res]
Arrive(p, r) ==
    /\ pc[p] = "idle"
    /\ req' = [req EXCEPT ![p] = r]
    /\ pre' = [pre EXCEPT ![p] = Store]
    /\ reqs' = [reqs EXCEPT ![p] = @ + 1]
    /\ UNCHANGED lib

-----------------------------------------------------------------------------
(* POST /api/tasks/[taskId]/complete: one step per awaited store call *)

\* the guard dropped: a completed task passes
AlreadyCompletedNever(task) == FALSE

\* the guard on a task that is already completed
AlreadyCompleted(task) == task.completedAt

\* 1. task.findUnique with skill, skill.tasks, skill.dependents; the guards
SingleLoad(p, taskId, submission) ==
    /\ Arrive(p, SingleReq(taskId, submission))
    /\ UNCHANGED <<store, now, ticks>>
    /\ IF taskId \notin DOMAIN tasks
       THEN Respond(p, "Task not found") /\ UNCHANGED loc
       ELSE IF TaskOwner(tasks, taskId) # SessionUser(p)
       THEN Respond(p, "Forbidden") /\ UNCHANGED loc
       ELSE IF AlreadyCompleted(tasks[taskId])
       THEN Respond(p, "Task already completed") /\ UNCHANGED loc
       ELSE /\ loc' = [loc EXCEPT ![p] =
                        [NoLoc EXCEPT !.kind = "single", !.taskId = taskId,
                                      !.submission = submission,
                                      !.skillId = tasks[taskId].skillId,
                                      !.snapTasks = tasks, !.snapSkills = skills,
                                      !.xpAwarded = tasks[taskId].xpReward]]
            /\ Goto(p, IF submission THEN "s_eval" ELSE "s_task")
            /\ UNCHANGED result

\* the score assigned before the evaluator's answer is known to be complete,
\* so that a failure leaves a score behind
EvaluatedKeepsScore(l, failed, score, xp) ==
    IF failed
    THEN [l EXCEPT !.evalFailed = TRUE, !.qualityScore = score]
    ELSE [l EXCEPT !.qualityScore = score, !.aiFeedback = TRUE, !.xpAwarded = xp]

\* what evaluateTaskCompletion leaves in the handler's variables: a thrown
\* error leaves the base XP and no score
Evaluated(l, failed, score, xp) ==
    IF failed
    THEN [l EXCEPT !.evalFailed = TRUE]
    ELSE [l EXCEPT !.qualityScore = score, !.aiFeedback = TRUE, !.xpAwarded = xp]

\* 2. evaluateTaskCompletion: throws, or returns any score in 1..10 and any suggestedXP
SingleEvaluate(p) ==
    /\ pc[p] = "s_eval"
    /\ \E failed \in BOOLEAN, score \in QualityScores, xp \in SuggestedXPs :
          loc' = [loc EXCEPT ![p] = Evaluated(@, failed, score, xp)]
    /\ Goto(p, "s_task")
    /\ UNCHANGED <<store, now, ticks, result, pre, reqs, req, lib>>

\* 3. task.update
SingleTaskUpdate(p) ==
    /\ pc[p] = "s_task"
    /\ LET t == loc[p].taskId IN
       /\ ~TaskLocked(p, t)
       /\ tasks' = [tasks EXCEPT ![t] =
                       [@ EXCEPT !.completedAt = TRUE,
                                 !.qualityScore = loc[p].qualityScore,
                                 !.aiFeedback = loc[p].aiFeedback]]
    /\ Goto(p, "s_skill")
    /\ UNCHANGED <<skills, users, activities, userAchievements, now, ticks, loc, result, pre, reqs, req, lib>>

\* 4. the status the handler computes for the task's skill, from its snapshot
SingleNewSkillStatus(snapTasks, snapSkills, taskId) ==
    LET s == snapTasks[taskId].skillId
        allTasksCompleted ==
            \A t \in TasksOfSkill(snapTasks, s) : t = taskId \/ snapTasks[t].completedAt
    IN  IF allTasksCompleted /\ snapSkills[s].status = "IN_PROGRESS"
        THEN "COMPLETED"
        ELSE snapSkills[s].status

\* 4. skill.update
SingleSkillUpdate(p) ==
    /\ pc[p] = "s_skill"
    /\ LET l == loc[p]
           s == l.skillId
           skill == l.snapSkills[s]
           newSkillXP == skill.currentXP + l.xpAwarded
           newSkillLevel == calculateSkillLevel(newSkillXP, skill.maxLevel)
           newSkillStatus == SingleNewSkillStatus(l.snapTasks, l.snapSkills, l.taskId)
           deps == IF newSkillStatus = "COMPLETED" THEN Dependents(s) ELSE {}
       IN
       /\ ~SkillLocked(p, s)
       /\ skills' = [skills EXCEPT ![s] =
                        [@ EXCEPT !.currentXP = newSkillXP,
                                  !.currentLevel = newSkillLevel,
                                  !.status = newSkillStatus,
                                  !.completedAt = (newSkillStatus = "COMPLETED")]]
       /\ loc' = [loc EXCEPT ![p] = [@ EXCEPT !.newSkillStatus = newSkillStatus, !.deps = deps]]
       /\ Goto(p, IF deps # {} THEN "s_depFind" ELSE "s_user")
    /\ UNCHANGED <<tasks, users, activities, userAchievements, now, ticks, result, pre, reqs, req, lib>>

\* 5. skill.findUnique of a dependent with its prerequisites; the unlock test
\* takes the prerequisites' statuses from this read and the dependent's own
\* status from the snapshot of step 1
SingleDepFind(p) ==
    /\ pc[p] = "s_depFind"
    /\ \E d \in loc[p].deps :
          LET allPrereqsCompleted == \A pr \in Prerequisites(d) : IsDone(skills[pr].status)
              unlock == allPrereqsCompleted /\ loc[p].snapSkills[d].status = "LOCKED"
              rest == loc[p].deps \ {d}
          IN  /\ loc' = [loc EXCEPT ![p] = [@ EXCEPT !.deps = rest, !.dep = d]]
              /\ Goto(p, IF unlock THEN "s_depUpd"
                         ELSE IF rest # {} THEN "s_depFind" ELSE "s_user")
    /\ UNCHANGED <<store, now, ticks, result, pre, reqs, req, lib>>

\* 5. skill.update of the dependent: status AVAILABLE
SingleDepUpdate(p) ==
    /\ pc[p] = "s_depUpd"
    /\ LET d == loc[p].dep IN
       /\ ~SkillLocked(p, d)
       /\ skills' = [skills EXCEPT ![d] = [@ EXCEPT !.status = "AVAILABLE"]]
       /\ loc' = [loc EXCEPT ![p] = [@ EXCEPT !.unlockedSkills = @ \cup {d}]]
    /\ Goto(p, IF loc[p].deps # {} THEN "s_depFind" ELSE "s_user")
    /\ UNCHANGED <<tasks, users, activities, userAchievements, now, ticks, result, pre, reqs, req, lib>>

\* 6, 7. user.findUnique, the new XP, level and streak
UserRead(l, user, xp, date) ==
    [l EXCEPT !.user = user,
              !.newTotalXP = user.totalXP + xp,
              !.newLevel = calculateUserLevel(user.totalXP + xp),
              !.streak = calculateStreak(user.lastActiveAt, user.currentStreak,
                                         user.longestStreak, date)]

SingleUserRead(p) ==
    /\ pc[p] = "s_user"
    /\ loc' = [loc EXCEPT ![p] = UserRead(@, users[SessionUser(p)], @.xpAwarded, now)]
    /\ Goto(p, "s_userUpd")
    /\ UNCHANGED <<store, now, ticks, result, pre, reqs, req, lib>>

\* 8. the activity rows of a single completion
SingleActivities(l, userId) ==
    SetToBag({Activity("TASK_COMPLETE", userId, l.skillId, l.taskId, l.xpAwarded)})
    (+) (IF l.newLevel > l.user.level
         THEN SetToBag({Activity("LEVEL_UP", userId, "none", "none", 0)})
         ELSE EmptyBag)
    (+) (IF l.newSkillStatus = "COMPLETED"
         THEN SetToBag({Activity("SKILL_UNLOCKED", userId, l.skillId, "none", 0)})
         ELSE EmptyBag)

UserWritten(user, l, date) ==
    [user EXCEPT !.totalXP = l.newTotalXP, !.level = l.newLevel,
                 !.currentStreak = l.streak.currentStreak,
                 !.longestStreak = l.streak.longestStreak,
                 !.lastActiveAt = date]

\* 8, 9. activity.create (one to three rows), then user.update
SingleUserUpdate(p) ==
    /\ pc[p] = "s_userUpd"
    /\ LET u == SessionUser(p) IN
       /\ activities' = activities (+) SingleActivities(loc[p], u)
       /\ users' = [users EXCEPT ![u] = UserWritten(@, loc[p], now)]
    /\ Goto(p, "ach_read")
    /\ UNCHANGED <<tasks, skills, userAchievements, now, ticks, loc, result, pre, reqs, req, lib>>

-----------------------------------------------------------------------------
(* Achievement check, the tail of both completion routes *)

\* the snapshot handed to checkNewAchievements: the caller's trees, skills and
\* tasks as stored now, the user values as computed by this handler
AchievementData(p) ==
    LET u == SessionUser(p) IN
    [user |-> [totalXP |-> loc[p].newTotalXP, level |-> loc[p].newLevel,
               currentStreak |-> loc[p].streak.currentStreak,
               longestStreak |-> loc[p].streak.longestStreak],
     skillTrees |-> {tr \in Trees : TreeOwner(tr) = u},
     skills |-> [s \in {x \in DOMAIN skills : SkillOwner(x) = u} |-> skills[s]],
     tasks |-> [t \in {x \in DOMAIN tasks : TaskOwner(tasks, x) = u} |-> tasks[t]]]

EarnedIds(u) == {ua[2] : ua \in {x \in userAchievements : x[1] = u}}

\* 10. the five findMany reads and checkNewAchievements
AchievementRead(p) ==
    /\ pc[p] = "ach_read"
    /\ LET newIds == checkNewAchievements(AchievementData(p), EarnedIds(SessionUser(p))) IN
       /\ loc' = [loc EXCEPT ![p] = [@ EXCEPT !.newAch = newIds]]
       /\ IF newIds = <<>>
          THEN Respond(p, "ok")
          ELSE Goto(p, "ach_create") /\ UNCHANGED result
    /\ UNCHANGED <<store, now, ticks, pre, reqs, req, lib>>

\* 10. userAchievement.create for the next new id; the unique index on
\* (userId, achievementId) rejects a second row and the handler answers 500
AchievementCreate(p) ==
    /\ pc[p] = "ach_create"
    /\ LET id == Head(loc[p].newAch)
           row == <<SessionUser(p), id>>
       IN  IF row \in userAchievements
           THEN /\ Respond(p, "Internal server error")
                /\ UNCHANGED <<userAchievements, loc>>
           ELSE /\ userAchievements' = userAchievements \cup {row}
                /\ loc' = [loc EXCEPT ![p] = [@ EXCEPT !.newAch = Tail(@),
                                                       !.granted = @ \cup {id}]]
                /\ IF Tail(loc[p].newAch) = <<>>
                   THEN Respond(p, "ok")
                   ELSE UNCHANGED <<pc, result>>
    /\ UNCHANGED <<tasks, skills, users, activities, now, ticks, pre, reqs, req, lib>>

-----------------------------------------------------------------------------
(* POST /api/tasks/bulk-complete: prisma.$transaction at READ COMMITTED.   *)
(* Reads see the committed store and the transaction's own writes; the     *)
(* writes lock their rows and reach the store at commit.                   *)

TxSkills(p) ==
    [s \in SkillIds |-> IF s \in loc[p].txSkillIds THEN loc[p].txSkills[s] ELSE skills[s]]

\* bulkCompleteSchema: 1 to 50 task ids
ValidBulk(taskIds) == Cardinality(taskIds) >= 1 /\ Cardinality(taskIds) <= 50

\* the ownership filter of the query dropped
IncompleteTasksAnyOwner(tbl, taskIds, userId) ==
    {t \in taskIds \cap DOMAIN tbl : ~tbl[t].completedAt}

\* incompleteTasks: the caller's tasks among the ids that are not yet completed
IncompleteTasks(tbl, taskIds, userId) ==
    {t \in taskIds \cap DOMAIN tbl : TaskOwner(tbl, t) = userId /\ ~tbl[t].completedAt}

\* 1. tx.task.findMany with ownership filter; the two guards; const now
BulkLoad(p, taskIds) ==
    /\ Arrive(p, BulkReq(taskIds))
    /\ UNCHANGED <<store, now, ticks>>
    /\ LET u == SessionUser(p)
           found == {t \in taskIds \cap DOMAIN tasks : TaskOwner(tasks, t) = u}
           incompleteTasks == IncompleteTasks(tasks, taskIds, u)
       IN  IF ~ValidBulk(taskIds)
           THEN Respond(p, "Invalid request data") /\ UNCHANGED loc
           ELSE IF found = {}
           THEN Respond(p, "No valid tasks found") /\ UNCHANGED loc
           ELSE IF incompleteTasks = {}
           THEN Respond(p, "All tasks already completed") /\ UNCHANGED loc
           ELSE /\ loc' = [loc EXCEPT ![p] =
                            [NoLoc EXCEPT !.kind = "bulk",
                                          !.snapTasks = tasks, !.snapSkills = skills,
                                          !.incomplete = incompleteTasks,
                                          !.date = now]]
                /\ Goto(p, "b_mark")
                /\ UNCHANGED result

\* 2, 3. tx.task.updateMany; the total XP; the skills to update
BulkMark(p) ==
    /\ pc[p] = "b_mark"
    /\ LET l == loc[p] IN
       /\ \A t \in l.incomplete : ~TaskLocked(p, t)
       /\ loc' = [loc EXCEPT ![p] =
                    [@ EXCEPT !.txTasks = l.incomplete,
                              !.totalXP = SumXP(l.snapTasks, l.incomplete),
                              !.pendingSkills = {l.snapTasks[t].skillId : t \in l.incomplete}]]
    /\ Goto(p, "b_skill")
    /\ UNCHANGED <<store, now, ticks, result, pre, reqs, req, lib>>

\* the XP of one task of the batch added to the snapshot, as an update per
\* task from a stale base leaves it
BulkSkillXPPerTask(l, s) ==
    l.snapSkills[s].currentXP
        + l.snapTasks[CHOOSE t \in l.incomplete : l.snapTasks[t].skillId = s].xpReward

\* 4. skillUpdates entry of skill s: XP aggregated over the batch, allCompleted
BulkSkillXP(l, s) ==
    l.snapSkills[s].currentXP
        + SumXP(l.snapTasks, {t \in l.incomplete : l.snapTasks[t].skillId = s})

BulkAllCompleted(l, s) ==
    \A t \in TasksOfSkill(l.snapTasks, s) : l.snapTasks[t].completedAt \/ t \in l.incomplete

BulkNewStatus(l, s) ==
    IF BulkAllCompleted(l, s) THEN "COMPLETED" ELSE l.snapSkills[s].status

\* the LOCKED dependents of s that tx.skill.findMany returns and the unlock test passes
BulkUnlockable(view, s) ==
    {d \in Dependents(s) :
        /\ view[d].status = "LOCKED"
        /\ \A pr \in Prerequisites(d) : pr = s \/ IsDone(view[pr].status)}

\* 4. tx.skill.update of one skill of the batch (in the iteration order of the
\* skillUpdates map, which follows the unordered findMany), then the
\* tx.skill.findMany of its LOCKED dependents if the skill newly completed
BulkSkillUpdate(p) ==
    /\ pc[p] = "b_skill"
    /\ \E s \in loc[p].pendingSkills :
          LET l == loc[p]
              newXP == BulkSkillXP(l, s)
              newStatus == BulkNewStatus(l, s)
              row == [TxSkills(p)[s] EXCEPT
                         !.currentXP = newXP,
                         !.currentLevel = calculateSkillLevel(newXP, l.snapSkills[s].maxLevel),
                         !.status = newStatus,
                         !.completedAt = (newStatus = "COMPLETED")]
              view == [TxSkills(p) EXCEPT ![s] = row]
              deps == IF newStatus = "COMPLETED" /\ l.snapSkills[s].status # "COMPLETED"
                      THEN BulkUnlockable(view, s) ELSE {}
              rest == l.pendingSkills \ {s}
              ids == l.txSkillIds \cup {s}
          IN  /\ ~SkillLocked(p, s)
              /\ loc' = [loc EXCEPT ![p] =
                           [@ EXCEPT !.pendingSkills = rest,
                                     !.updatedSkills = @ \cup {s},
                                     !.txSkillIds = ids,
                                     !.txSkills = [x \in ids |-> view[x]],
                                     !.deps = deps]]
              /\ Goto(p, IF deps # {} THEN "b_dep"
                         ELSE IF rest # {} THEN "b_skill" ELSE "b_user")
    /\ UNCHANGED <<store, now, ticks, result, pre, reqs, req, lib>>

\* 4. tx.skill.update of the unlockable dependents: status AVAILABLE
BulkDepUpdate(p) ==
    /\ pc[p] = "b_dep"
    /\ LET l == loc[p]
           ids == l.txSkillIds \cup l.deps
           view == [s \in SkillIds |->
                      IF s \in l.deps THEN [TxSkills(p)[s] EXCEPT !.status = "AVAILABLE"]
                      ELSE TxSkills(p)[s]]
       IN  /\ \A d \in l.deps : ~SkillLocked(p, d)
           /\ loc' = [loc EXCEPT ![p] =
                        [@ EXCEPT !.txSkillIds = ids,
                                  !.txSkills = [x \in ids |-> view[x]],
                                  !.unlockedSkills = @ \cup l.deps,
                                  !.deps = {}]]
           /\ Goto(p, IF l.pendingSkills # {} THEN "b_skill" ELSE "b_user")
    /\ UNCHANGED <<store, now, ticks, result, pre, reqs, req, lib>>

\* 5. tx.user.findUnique, the new XP, level and streak
BulkUserRead(p) ==
    /\ pc[p] = "b_user"
    /\ loc' = [loc EXCEPT ![p] = UserRead(@, users[SessionUser(p)], @.totalXP, now)]
    /\ Goto(p, "b_commit")
    /\ UNCHANGED <<store, now, ticks, result, pre, reqs, req, lib>>

\* one activity row per completed task instead of one for the batch
BulkActivitiesPerTask(l, userId) ==
    SetToBag({Activity("TASK_COMPLETE", userId, l.snapTasks[t].skillId, t,
                       l.snapTasks[t].xpReward) : t \in l.incomplete})

\* 6. the activity row of a bulk completion
BulkActivities(l, userId) ==
    SetToBag({Activity("TASK_COMPLETE", userId, "none", "none", l.totalXP)})

\* 4. the loop over skillUpdates run to its end on the skill rows view: each
\* skill of pending updated, and the dependents it unlocks, in turn
RECURSIVE BulkSkillsAfter(_, _, _)
BulkSkillsAfter(l, view, pending) ==
    IF pending = {} THEN view
    ELSE LET s == CHOOSE x \in pending : TRUE
             newXP == BulkSkillXP(l, s)
             newStatus == BulkNewStatus(l, s)
             row == [view[s] EXCEPT
                        !.currentXP = newXP,
                        !.currentLevel = calculateSkillLevel(newXP, l.snapSkills[s].maxLevel),
                        !.status = newStatus,
                        !.completedAt = (newStatus = "COMPLETED")]
             updated == [view EXCEPT ![s] = row]
             deps == IF newStatus = "COMPLETED" /\ l.snapSkills[s].status # "COMPLETED"
                     THEN BulkUnlockable(updated, s) ELSE {}
             unlocked == [x \in DOMAIN updated |->
                            IF x \in deps THEN [updated[x] EXCEPT !.status = "AVAILABLE"]
                            ELSE updated[x]]
         IN  BulkSkillsAfter(l, unlocked, pending \ {s})

\* the store a successful completeTasksBulk(taskIds) of user u leaves when it
\* runs alone on store st at time date: steps 1 to 7 of the route
BulkOutcome(st, taskIds, u, date) ==
    LET incompleteTasks == IncompleteTasks(st.tasks, taskIds, u)
        l == [NoLoc EXCEPT !.snapTasks = st.tasks, !.snapSkills = st.skills,
                           !.incomplete = incompleteTasks,
                           !.totalXP = SumXP(st.tasks, incompleteTasks)]
        newTasks == [t \in DOMAIN st.tasks |->
                        IF t \in incompleteTasks
                        THEN [st.tasks[t] EXCEPT !.completedAt = TRUE]
                        ELSE st.tasks[t]]
        newSkills == BulkSkillsAfter(l, st.skills,
                                     {st.tasks[t].skillId : t \in incompleteTasks})
        lu == UserRead(l, st.users[u], l.totalXP, date)
        data == [user |-> [totalXP |-> lu.newTotalXP, level |-> lu.newLevel,
                           currentStreak |-> lu.streak.currentStreak,
                           longestStreak |-> lu.streak.longestStreak],
                 skillTrees |-> {SkillTree(s) : s \in {x \in DOMAIN newSkills : SkillOwner(x) = u}},
                 skills |-> [s \in {x \in DOMAIN newSkills : SkillOwner(x) = u} |-> newSkills[s]],
                 tasks |-> [t \in {x \in DOMAIN newTasks : TaskOwner(newTasks, x) = u}
                              |-> newTasks[t]]]
        earned == {ua[2] : ua \in {x \in st.userAchievements : x[1] = u}}
        newIds == checkNewAchievements(data, earned)
    IN  [tasks |-> newTasks,
         skills |-> newSkills,
         users |-> [st.users EXCEPT ![u] = UserWritten(@, lu, date)],
         activities |-> st.activities (+) BulkActivities(l, u),
         userAchievements |->
             st.userAchievements \cup {<<u, newIds[i]>> : i \in 1..Len(newIds)}]

\* 5, 6. tx.user.update, tx.activity.create, and the commit that publishes
\* the transaction's task and skill writes
BulkCommit(p) ==
    /\ pc[p] = "b_commit"
    /\ LET l == loc[p]
           u == SessionUser(p)
       IN
       /\ tasks' = [t \in DOMAIN tasks |->
                      IF t \in l.txTasks THEN [tasks[t] EXCEPT !.completedAt = TRUE]
                      ELSE tasks[t]]
       /\ skills' = TxSkills(p)
       /\ users' = [users EXCEPT ![u] = UserWritten(@, l, l.date)]
       /\ activities' = activities (+) BulkActivities(l, u)
       /\ loc' = [loc EXCEPT ![p] =
                    [@ EXCEPT !.txTasks = {}, !.txSkillIds = {}, !.txSkills = <<>>]]
    /\ Goto(p, "ach_read")
    /\ UNCHANGED <<userAchievements, now, ticks, result, pre, reqs, req, lib>>

-----------------------------------------------------------------------------
(* POST /api/tasks: the session user adds a task to one of their skills *)

CreateTask(s) ==
    /\ NewTaskId \notin DOMAIN tasks
    /\ SkillOwner(s) = "u1"
    /\ \E xpReward \in NewTaskXPs :
          tasks' = (NewTaskId :> TaskRow(s, xpReward)) @@ tasks
    /\ UNCHANGED <<skills, users, activities, userAchievements, now, ticks, pc, loc, result, pre, reqs, req, lib>>

-----------------------------------------------------------------------------
(* PUT /api/tasks/[taskId]: the session user edits the xpReward of a task  *)
(* of theirs, completed or not                                              *)

EditedXPs == {10}

UpdateTask(t) ==
    /\ t \in DOMAIN tasks
    /\ TaskOwner(tasks, t) = "u1"
    /\ \E xpReward \in EditedXPs :
          tasks' = [tasks EXCEPT ![t] = [@ EXCEPT !.xpReward = xpReward]]
    /\ UNCHANGED <<skills, users, activities, userAchievements, now, ticks, pc, loc, result, pre, reqs, req, lib>>

-----------------------------------------------------------------------------
(* DELETE /api/skill-tree/[id]: one step per awaited store call; the user  *)
(* update and the delete run in one transaction                            *)

TasksOfTree(tbl, treeSkills) == {t \in DOMAIN tbl : tbl[t].skillId \in treeSkills}

\* xpToDeduct: the xpReward of the completed tasks of the tree's skills
XpToDeduct(tbl, treeSkills) ==
    SumXP(tbl, {t \in TasksOfTree(tbl, treeSkills) : tbl[t].completedAt})

\* the number of rows of the bag that are among rows
RECURSIVE Copies(_, _)
Copies(bag, rows) ==
    IF rows = {} THEN 0
    ELSE LET a == CHOOSE x \in rows : TRUE
         IN  CopiesIn(a, bag) + Copies(bag, rows \ {a})

\* ON DELETE SET NULL of Activity.skillId and Activity.taskId
SetNull(a, delSkills, delTasks) ==
    [a EXCEPT !.skillId = IF @ \in delSkills THEN "none" ELSE @,
              !.taskId = IF @ \in delTasks THEN "none" ELSE @]

ActivitiesAfterDelete(bag, delSkills, delTasks) ==
    LET rows == BagToSet(bag)
        kept == {SetNull(a, delSkills, delTasks) : a \in rows}
    IN  [b \in kept |->
            Copies(bag, {a \in rows : SetNull(a, delSkills, delTasks) = b})]

\* skillTree.findUnique with its skills; the not-found and ownership guards
DeleteLoad(p, treeId) ==
    /\ Arrive(p, DeleteReq(treeId))
    /\ UNCHANGED <<store, now, ticks>>
    /\ IF treeId \notin Trees
       THEN Respond(p, "Skill tree not found") /\ UNCHANGED loc
       ELSE IF TreeOwner(treeId) # SessionUser(p)
       THEN Respond(p, "Forbidden") /\ UNCHANGED loc
       ELSE /\ loc' = [loc EXCEPT ![p] =
                        [NoLoc EXCEPT !.kind = "delete", !.treeId = treeId,
                                      !.treeSkills = {s \in DOMAIN skills : SkillTree(s) = treeId}]]
            /\ Goto(p, "d_sum")
            /\ UNCHANGED result

\* task.findMany of the completed tasks; xpToDeduct
DeleteSum(p) ==
    /\ pc[p] = "d_sum"
    /\ loc' = [loc EXCEPT ![p] = [@ EXCEPT !.xpToDeduct = XpToDeduct(tasks, loc[p].treeSkills)]]
    /\ Goto(p, "d_count")
    /\ UNCHANGED <<store, now, ticks, result, pre, reqs, req, lib>>

\* task.count
DeleteCount(p) ==
    /\ pc[p] = "d_count"
    /\ loc' = [loc EXCEPT ![p] =
                 [@ EXCEPT !.tasksCount = Cardinality(TasksOfTree(tasks, loc[p].treeSkills))]]
    /\ Goto(p, IF loc[p].xpToDeduct > 0 THEN "d_user" ELSE "d_commit")
    /\ UNCHANGED <<store, now, ticks, result, pre, reqs, req, lib>>

\* tx.user.findUnique, when there is XP to deduct
DeleteUserRead(p) ==
    /\ pc[p] = "d_user"
    /\ loc' = [loc EXCEPT ![p] = [@ EXCEPT !.user = users[SessionUser(p)]]]
    /\ Goto(p, "d_commit")
    /\ UNCHANGED <<store, now, ticks, result, pre, reqs, req, lib>>

\* the deduction written without the level
UserAfterDeleteKeepsLevel(user, l) ==
    [user EXCEPT !.totalXP = Max(0, l.user.totalXP - l.xpToDeduct)]

\* the user row a deletion writes
UserAfterDelete(user, l) ==
    LET newTotalXP == Max(0, l.user.totalXP - l.xpToDeduct)
    IN  [user EXCEPT !.totalXP = newTotalXP, !.level = calculateUserLevel(newTotalXP)]

\* tx.user.update, tx.skillTree.delete with its cascade, and the commit; the
\* delete waits for the row locks of an open transaction, and fails when
\* the tree is gone
DeleteCommit(p) ==
    /\ pc[p] = "d_commit"
    /\ LET l == loc[p]
           u == SessionUser(p)
           delSkills == {s \in DOMAIN skills : SkillTree(s) = l.treeId}
           delTasks == TasksOfTree(tasks, delSkills)
       IN
       /\ \A q \in Procs \ {p} : loc[q].txTasks \cap delTasks = {}
                                 /\ loc[q].txSkillIds \cap delSkills = {}
       /\ IF l.treeId \notin Trees
          THEN /\ Respond(p, "Failed to delete skill tree")
               /\ UNCHANGED store
          ELSE /\ users' = IF l.xpToDeduct > 0
                           THEN [users EXCEPT ![u] = UserAfterDelete(@, l)]
                           ELSE users
               /\ skills' = [s \in DOMAIN skills \ delSkills |-> skills[s]]
               /\ tasks' = [t \in DOMAIN tasks \ delTasks |-> tasks[t]]
               /\ activities' = ActivitiesAfterDelete(activities, delSkills, delTasks)
               /\ UNCHANGED userAchievements
               /\ Respond(p, "ok")
    /\ UNCHANGED <<now, ticks, loc, pre, reqs, req, lib>>

-----------------------------------------------------------------------------
(* Environment *)

\* the handler is free for the next request
Finish(p) ==
    /\ pc[p] = "done"
    /\ reqs[p] < MaxReqs
    /\ pc' = [pc EXCEPT ![p] = "idle"]
    /\ loc' = [loc EXCEPT ![p] = NoLoc]
    /\ result' = [result EXCEPT ![p] = "none"]
    /\ pre' = [pre EXCEPT ![p] = NoStore]
    /\ UNCHANGED <<store, now, ticks, reqs, lib>>
    /\ req' = [req EXCEPT ![p] = NoReq]

\* time passes between requests
Tick ==
    /\ ticks < MaxTicks
    /\ \A p \in Procs : pc[p] = "idle"
    /\ \E u \in Users : users[u].lastActiveAt # NoDate
    /\ \E step \in TickSteps : now' = now + step
    /\ ticks' = ticks + 1
    /\ UNCHANGED <<store, pc, loc, result, pre, reqs, req, lib>>

\* time passes while requests are under way
Elapse ==
    /\ ticks < MaxTicks
    /\ \E p \in Procs : pc[p] \notin {"idle", "done"}
    /\ \E step \in TickSteps : now' = now + step
    /\ ticks' = ticks + 1
    /\ UNCHANGED <<store, pc, loc, result, pre, reqs, req, lib>>

\* an awaited store call throws: the handler answers 500; an open
\* transaction is rolled back, everything written outside one stays
StorageFailure(p) ==
    /\ pc[p] \notin {"idle", "done", "s_eval"}
    /\ Respond(p, "Internal server error")
    /\ loc' = [loc EXCEPT ![p] =
                 [@ EXCEPT !.txTasks = {}, !.txSkillIds = {}, !.txSkills = <<>>]]
    /\ UNCHANGED <<store, now, ticks, pre, reqs, req, lib>>

\* the rows a request under way works on are still stored
RowsPresent(p) ==
    CASE loc[p].kind = "single" -> /\ loc[p].taskId \in DOMAIN tasks
                                   /\ loc[p].skillId \in DOMAIN skills
      [] loc[p].kind = "bulk" -> loc[p].incomplete \subseteq DOMAIN tasks
      [] OTHER -> TRUE

\* a write of a request whose rows were deleted meanwhile: update of a
\* missing record, or an Activity row referring to one; the handler answers 500
RowMissing(p) ==
    /\ pc[p] \in {"s_task", "s_skill", "s_depUpd", "s_userUpd", "b_mark"}
    /\ ~RowsPresent(p)
    /\ Respond(p, "Internal server error")
    /\ UNCHANGED <<store, now, ticks, loc, pre, reqs, req, lib>>

\* skill.findUnique of a deleted dependent returns null: the loop goes on
SingleDepFindMissing(p) ==
    /\ pc[p] = "s_depFind"
    /\ ~RowsPresent(p)
    /\ loc' = [loc EXCEPT ![p] = [@ EXCEPT !.deps = {}]]
    /\ Goto(p, "s_user")
    /\ UNCHANGED <<store, now, ticks, result, pre, reqs, req, lib>>

-----------------------------------------------------------------------------
(* Specifications *)

\* the requests a handler may receive: completeTask for a task of singleIds,
\* with or without a submission, and completeTasksBulk for any set of ids of
\* bulkIds (the empty list included)
Requests(p, singleIds, submissions, bulkIds) ==
    \/ \E t \in singleIds, submission \in submissions : SingleLoad(p, t, submission)
    \/ \E ids \in SUBSET bulkIds : BulkLoad(p, ids)

\* the store calls of a request under way
Steps(p) ==
    \/ SingleTaskUpdate(p)
    \/ SingleSkillUpdate(p)
    \/ SingleDepFind(p)
    \/ SingleDepUpdate(p)
    \/ SingleUserRead(p)
    \/ SingleUserUpdate(p)
    \/ BulkMark(p)
    \/ BulkSkillUpdate(p)
    \/ BulkDepUpdate(p)
    \/ BulkUserRead(p)
    \/ BulkCommit(p)
    \/ AchievementRead(p)
    \/ AchievementCreate(p)

\* two handlers serve one request each, for tasks of the session user and
\* without submission, their store calls interleaved in any order; handler 1
\* is the one whose request arrives first
ConcTaskIds == {"a1", "a2", "b1", "c1"}

Next ==
    \E p \in Procs :
        \/ (p = 1 \/ pc[1] # "idle") /\ Requests(p, ConcTaskIds, {FALSE}, ConcTaskIds)
        \/ Steps(p)

Spec == Init /\ [][Next]_vars

\* one handler serves requests one after the other
SeqNext ==
    \/ Requests(1, TaskIds, BOOLEAN, TaskIds \ {NewTaskId})
    \/ SingleEvaluate(1)
    \/ Steps(1)
    \/ Finish(1)
    \/ \E s \in NewTaskSkills : pc[1] = "idle" /\ CreateTask(s)

SeqSpec == Init /\ [][SeqNext]_vars

\* one handler serves requests one after the other, while a task may be
\* added to a skill at any moment, also between two store calls of a request
CreateNext ==
    \/ Requests(1, TaskIds, BOOLEAN, TaskIds \ {NewTaskId})
    \/ SingleEvaluate(1)
    \/ Steps(1)
    \/ Finish(1)
    \/ \E s \in NewTaskSkills : CreateTask(s)

CreateSpec == Init /\ [][CreateNext]_vars

\* sequential requests with time passing between them
ClockNext ==
    \/ SeqNext
    \/ Tick

ClockSpec == Init /\ [][ClockNext]_vars

\* sequential requests over a store whose calls may fail
FaultNext ==
    \/ SeqNext
    \/ StorageFailure(1)

FaultSpec == Init /\ [][FaultNext]_vars

\* one handler serves completion requests, another serves deletions of
\* skill trees; their store calls interleave in any order
DelTaskIds == {"a1", "c1"}

DeleteNext ==
    \/ Requests(1, DelTaskIds, {FALSE}, DelTaskIds)
    \/ RowsPresent(1) /\ Steps(1)
    \/ RowMissing(1)
    \/ SingleDepFindMissing(1)
    \/ ~RowsPresent(1) /\ (SingleUserRead(1) \/ AchievementRead(1) \/ AchievementCreate(1))
    \/ Finish(1)
    \/ \E tr \in TreeIds : DeleteLoad(2, tr)
    \/ DeleteSum(2)
    \/ DeleteCount(2)
    \/ DeleteUserRead(2)
    \/ DeleteCommit(2)
    \/ Finish(2)

DeleteSpec == Init /\ [][DeleteNext]_vars

\* two handlers serve one request each, a completion (single or bulk, without
\* submission) or the deletion of a skill tree, their store calls interleaved
\* in any order; handler 1 is the one whose request arrives first
MixTaskIds == {"a1", "a2", "c1"}

MixNext ==
    \E p \in Procs :
        \/ (p = 1 \/ pc[1] # "idle") /\ Requests(p, MixTaskIds, {FALSE}, MixTaskIds)
        \/ (p = 1 \/ pc[1] # "idle") /\ \E tr \in TreeIds : DeleteLoad(p, tr)
        \/ RowsPresent(p) /\ SingleTaskUpdate(p)
        \/ RowsPresent(p) /\ SingleSkillUpdate(p)
        \/ RowsPresent(p) /\ SingleDepFind(p)
        \/ RowsPresent(p) /\ SingleDepUpdate(p)
        \/ SingleUserRead(p)
        \/ RowsPresent(p) /\ SingleUserUpdate(p)
        \/ RowsPresent(p) /\ BulkMark(p)
        \/ BulkSkillUpdate(p)
        \/ BulkDepUpdate(p)
        \/ BulkUserRead(p)
        \/ BulkCommit(p)
        \/ AchievementRead(p)
        \/ AchievementCreate(p)
        \/ RowMissing(p)
        \/ SingleDepFindMissing(p)
        \/ DeleteSum(p)
        \/ DeleteCount(p)
        \/ DeleteUserRead(p)
        \/ DeleteCommit(p)

MixSpec == Init /\ [][MixNext]_vars

\* one handler serves completions, with or without submission, and tree
\* deletions one after the other; between two requests the user may edit
\* the xpReward of a task
EditedTasks == {"a1"}

EditNext ==
    \/ Requests(1, MixTaskIds, BOOLEAN, MixTaskIds)
    \/ SingleEvaluate(1)
    \/ Steps(1)
    \/ \E tr \in TreeIds : DeleteLoad(1, tr)
    \/ DeleteSum(1)
    \/ DeleteCount(1)
    \/ DeleteUserRead(1)
    \/ DeleteCommit(1)
    \/ Finish(1)
    \/ \E t \in EditedTasks : pc[1] = "idle" /\ UpdateTask(t)

EditSpec == Init /\ [][EditNext]_vars

\* handler 1 serves completeTask requests one after the other; while it
\* serves its last one, handler 2 serves a completeTasksBulk request; time
\* may pass between two store calls of a request
RaceTaskIds == {"a1", "a2", "c1"}

RaceNext ==
    \/ Requests(1, RaceTaskIds, {FALSE}, {})
    \/ reqs[1] = MaxReqs /\ Requests(2, {}, {FALSE}, RaceTaskIds)
    \/ \E p \in Procs : Steps(p)
    \/ Finish(1)
    \/ Elapse

RaceSpec == Init /\ [][RaceNext]_vars

\* one handler serves completeTask requests without submission one after the
\* other, on the store a tree creation leaves (no skill IN_PROGRESS)
TwinTaskIds == {"a1", "a2", "b1", "c1", "d1"}

InitStore ==
    [tasks |-> InitTasks, skills |-> InitSkills("AVAILABLE"),
     users |-> [u \in Users |-> UserRow], activities |-> EmptyBag,
     userAchievements |-> {}]

TwinInit == Init /\ skills = InitStore.skills

TwinNext ==
    \/ \E t \in TwinTaskIds : SingleLoad(1, t, FALSE)
    \/ SingleTaskUpdate(1)
    \/ SingleSkillUpdate(1)
    \/ SingleUserRead(1)
    \/ SingleUserUpdate(1)
    \/ AchievementRead(1)
    \/ AchievementCreate(1)
    \/ Finish(1)

TwinSpec == TwinInit /\ [][TwinNext]_vars

-----------------------------------------------------------------------------
(* lib/gamification called on its own: the arguments are drawn from        *)
(* bounded sets, one action per exported function applies it               *)

StreakCalls ==
    {[fn |-> "calculateStreak", lastActivityDate |-> l, currentStreak |-> c,
      longestStreak |-> g, activityDate |-> a] :
        l \in {NoDate} \cup (0..MaxHour), c \in 0..MaxStreak, g \in 0..MaxStreak,
        a \in 0..MaxHour}

UserLevelCalls ==
    {[fn |-> "calculateUserLevel", totalXp |-> totalXpForUserLevel(L)] : L \in 1..MaxUserLevel}

LevelXPs == {0, 100, 400, 800}

SkillLevelCalls ==
    {[fn |-> "calculateSkillLevel", currentXp |-> x, maxLevel |-> m] :
        x \in LevelXPs \cup {totalXpForSkillLevel(L) : L \in 1..MaxSkillLevel},
        m \in 1..MaxSkillLevel}

AchLevels == {1, 10}
AchStreaks == {0, 7}
AchSkillIds == {"A", "B"}
AchSkillRows == {[SkillRow("AVAILABLE") EXCEPT !.status = st, !.completedAt = c] :
                    st \in {"AVAILABLE", "COMPLETED"}, c \in BOOLEAN}
AchTaskIds == {"a1"}
AchEarnedIds == {"first-skill", "first-task", "streak-7", "tree-complete"}

\* AchievementCheckData snapshots
AchSnapshots ==
    {[user |-> [totalXP |-> 0, level |-> lv, currentStreak |-> st, longestStreak |-> st],
      skillTrees |-> trs, skills |-> sk, tasks |-> tk] :
        lv \in AchLevels, st \in AchStreaks, trs \in {{}, {"t1"}},
        sk \in [AchSkillIds -> AchSkillRows],
        tk \in [AchTaskIds -> {TaskRow("A", 50), [TaskRow("A", 50) EXCEPT !.completedAt = TRUE]}]}

AchievementCalls ==
    {[fn |-> "checkNewAchievements", data |-> d, earnedAchievementIds |-> e] :
        d \in AchSnapshots, e \in SUBSET AchEarnedIds}

LibInit ==
    /\ tasks = InitTasks
    /\ skills = InitSkills("AVAILABLE")
    /\ users = [u \in Users |-> UserRow]
    /\ activities = EmptyBag
    /\ userAchievements = {}
    /\ now = 10
    /\ pc = [p \in Procs |-> "idle"]
    /\ loc = [p \in Procs |-> NoLoc]
    /\ result = [p \in Procs |-> "none"]
    /\ pre = [p \in Procs |-> NoStore]
    /\ req = [p \in Procs |-> NoReq]
    /\ reqs = [p \in Procs |-> 0]
    /\ ticks = 0
    /\ call \in StreakCalls \cup UserLevelCalls \cup SkillLevelCalls \cup AchievementCalls
    /\ ret = NoRet

Returned(value) ==
    /\ ret = NoRet
    /\ ret' = [fn |-> call.fn, value |-> value]
    /\ UNCHANGED <<store, now, ticks, pc, loc, result, pre, reqs, req, call>>

CallCalculateStreak ==
    /\ call.fn = "calculateStreak"
    /\ Returned(calculateStreak(call.lastActivityDate, call.currentStreak,
                                call.longestStreak, call.activityDate))

CallCalculateUserLevel ==
    /\ call.fn = "calculateUserLevel"
    /\ Returned(calculateUserLevel(call.totalXp))

CallCalculateSkillLevel ==
    /\ call.fn = "calculateSkillLevel"
    /\ Returned(calculateSkillLevel(call.currentXp, call.maxLevel))

CallCheckNewAchievements ==
    /\ call.fn = "checkNewAchievements"
    /\ Returned(checkNewAchievements(call.data, call.earnedAchievementIds))

LibNext ==
    \/ CallCalculateStreak
    \/ CallCalculateUserLevel
    \/ CallCalculateSkillLevel
    \/ CallCheckNewAchievements

LibSpec == LibInit /\ [][LibNext]_vars

-----------------------------------------------------------------------------
(* Properties *)

Finished(p) == pc[p] = "done"
Ok(p) == Finished(p) /\ result[p] = "ok"
Failed(p) == Finished(p) /\ result[p] # "ok"

\* the tasks a request names, and the XP a finished request reports
Targets(p) == IF req[p].kind = "single" THEN {req[p].taskId} ELSE req[p].taskIds
Awarded(p) == IF req[p].kind = "single" THEN loc[p].xpAwarded ELSE loc[p].totalXP

CompletedBySingle(t) ==
    \E a \in BagToSet(activities) : a.type = "TASK_COMPLETE" /\ a.taskId = t

\* C1: two completeTask requests for the same task: exactly one succeeds, the
\* other fails with "Task already completed", and the task's XP reaches the
\* skill and the user exactly once
C1_ExactlyOneCompletion ==
    \A t \in ConcTaskIds :
        (/\ Finished(1) /\ Finished(2)
         /\ req[1] = SingleReq(t, FALSE) /\ req[2] = SingleReq(t, FALSE))
        => LET s == InitTasks[t].skillId
               xp == InitTasks[t].xpReward
           IN  /\ {result[1], result[2]} = {"ok", "Task already completed"}
               /\ skills[s].currentXP = pre[1].skills[s].currentXP + xp
               /\ users["u1"].totalXP = pre[1].users["u1"].totalXP + xp

\* C2: a completion request that answers an error leaves the Task, Skill,
\* User, Activity and UserAchievement tables as they were when it arrived
C2_ErrorLeavesStore ==
    \A p \in Procs : Failed(p) => Store = pre[p]

\* C3: two successful completions of different tasks by the same user: the
\* user's totalXP ends at the initial value plus both awards
C3_NoLostUserUpdate ==
    (/\ Ok(1) /\ Ok(2)
     /\ Targets(1) \cap Targets(2) = {})
    => users["u1"].totalXP = pre[1].users["u1"].totalXP + Awarded(1) + Awarded(2)

\* C4: a task whose completedAt is set yields no XP again: completeTask on it
\* fails ("Task already completed" for its owner) and changes nothing;
\* completeTasksBulk fails when every listed task of the caller is completed
\* and otherwise awards only the XP of the tasks that were not
C4_CompletedTaskYieldsNothing ==
    \A p \in Procs : Finished(p) =>
        LET u == SessionUser(p)
            old == pre[p].tasks
            mine == {t \in req[p].taskIds \cap DOMAIN old : TaskOwner(old, t) = u}
            doneBefore == {t \in mine : old[t].completedAt}
            fresh == mine \ doneBefore
        IN  /\ (/\ req[p].kind = "single"
                /\ req[p].taskId \in DOMAIN old
                /\ old[req[p].taskId].completedAt)
               => /\ result[p] # "ok"
                  /\ Store = pre[p]
                  /\ TaskOwner(old, req[p].taskId) = u => result[p] = "Task already completed"
            /\ (req[p].kind = "bulk" /\ mine # {} /\ fresh = {})
               => /\ result[p] = "All tasks already completed"
                  /\ Store = pre[p]
            /\ (req[p].kind = "bulk" /\ result[p] = "ok")
               => /\ users[u].totalXP - pre[p].users[u].totalXP = SumXP(old, fresh)
                  /\ \A s \in SkillIds :
                        skills[s].currentXP - pre[p].skills[s].currentXP
                            = SumXP(old, {t \in fresh : old[t].skillId = s})
                  /\ \A t \in doneBefore : tasks[t] = old[t]

C4_Witness ==
    \E p \in Procs :
        /\ Finished(p) /\ req[p].kind = "single"
        /\ req[p].taskId \in DOMAIN pre[p].tasks
        /\ pre[p].tasks[req[p].taskId].completedAt
        /\ result[p] = "Task already completed"
        /\ users[SessionUser(p)].totalXP > 0

\* C5: after a successful completion a skill that was LOCKED before the call
\* is AVAILABLE iff one of its prerequisites became COMPLETED in the call and
\* all its prerequisites are COMPLETED or MASTERED after the call
C5_UnlockIff ==
    \A p \in Procs : Ok(p) =>
        \A s \in SkillIds :
            pre[p].skills[s].status = "LOCKED" =>
                (skills[s].status = "AVAILABLE"
                 <=> /\ \E c \in Prerequisites(s) :
                          /\ pre[p].skills[c].status # "COMPLETED"
                          /\ skills[c].status = "COMPLETED"
                     /\ \A c \in Prerequisites(s) : IsDone(skills[c].status))

\* C6: after a successful completion the user's totalXP and every skill's
\* currentXP are at least what they were before the call
C6_XPMonotonic ==
    \A p \in Procs : Ok(p) =>
        /\ users[SessionUser(p)].totalXP >= pre[p].users[SessionUser(p)].totalXP
        /\ \A s \in SkillIds : skills[s].currentXP >= pre[p].skills[s].currentXP

\* C7: whenever the status COMPLETED is written to a skill, every task the
\* skill has at that moment is completed
C7_CompletedMeansAllTasksDone ==
    [][\A s \in SkillIds :
          (skills[s].status # "COMPLETED" /\ skills'[s].status = "COMPLETED")
          => \A t \in TasksOfSkill(tasks', s) : tasks'[t].completedAt]_vars

\* C8: completing with completeTask the last incomplete task of a skill that
\* started AVAILABLE and whose tasks were all completed with completeTask
\* sets the skill COMPLETED, unlocks every LOCKED dependent whose
\* prerequisites are then complete, and grants "first-skill" if no skill of
\* the user was completed before
C8_LastTaskCompletesSkill ==
    \A p \in Procs :
        (/\ Ok(p) /\ req[p].kind = "single"
         /\ pre[p].tasks[req[p].taskId].skillId = "A"
         /\ \A x \in TasksOfSkill(tasks, "A") : tasks[x].completedAt /\ CompletedBySingle(x))
        => /\ skills["A"].status = "COMPLETED"
           /\ \A d \in Dependents("A") :
                 (/\ pre[p].skills[d].status = "LOCKED"
                  /\ \A c \in Prerequisites(d) : IsDone(skills[c].status))
                 => skills[d].status = "AVAILABLE"
           /\ (\A s \in SkillIds : ~pre[p].skills[s].completedAt)
              => <<SessionUser(p), "first-skill">> \in userAchievements

\* C9: a successful completeTask on a task of an AVAILABLE skill that still
\* has incomplete tasks sets the skill IN_PROGRESS and adds the awarded XP to
\* the user's totalXP
C9_FirstTaskStartsSkill ==
    \A p \in Procs :
        (/\ Ok(p) /\ req[p].kind = "single"
         /\ pre[p].skills[loc[p].skillId].status = "AVAILABLE"
         /\ \E x \in TasksOfSkill(tasks, loc[p].skillId) : ~tasks[x].completedAt)
        => /\ skills[loc[p].skillId].status = "IN_PROGRESS"
           /\ users[SessionUser(p)].totalXP
                = pre[p].users[SessionUser(p)].totalXP + loc[p].xpAwarded

\* C10: when the quality evaluation of a submission fails, completeTask
\* still succeeds, awards the task's base xpReward to the skill and the
\* user, and stores and returns no qualityScore and no feedback
C10_EvaluationFailureFallsBack ==
    \A p \in Procs :
        (Finished(p) /\ req[p].kind = "single" /\ loc[p].evalFailed)
        => LET t == req[p].taskId
               s == loc[p].skillId
               u == SessionUser(p)
               base == pre[p].tasks[t].xpReward
           IN  /\ result[p] = "ok"
               /\ loc[p].xpAwarded = base
               /\ skills[s].currentXP = pre[p].skills[s].currentXP + base
               /\ users[u].totalXP = pre[p].users[u].totalXP + base
               /\ tasks[t].completedAt
               /\ tasks[t].qualityScore = NoScore /\ ~tasks[t].aiFeedback
               /\ loc[p].qualityScore = NoScore /\ ~loc[p].aiFeedback

C10_Witness ==
    \E p \in Procs :
        /\ Ok(p) /\ req[p].kind = "single" /\ req[p].submission /\ loc[p].evalFailed
        /\ tasks[req[p].taskId].completedAt

\* a calendar day of the clock, which counts hours
DayOf(date) == date \div 24

\* C11: calculateStreak, for a time not before the last activity, returns
\* (1, max(1, longest), not broken) when there is no last activity; the
\* inputs unchanged on the same calendar day; (current + 1, max(current + 1,
\* longest), not broken) on another calendar day within 48 hours; and
\* (1, longest, broken) when the gap exceeds 48 hours
C11_StreakCases ==
    (ret.fn = "calculateStreak" /\ (call.lastActivityDate = NoDate
                                     \/ call.activityDate >= call.lastActivityDate))
    => LET l == call.lastActivityDate
           a == call.activityDate
           c == call.currentStreak
           g == call.longestStreak
           r == ret.value
       IN  /\ l = NoDate
              => r = [currentStreak |-> 1, longestStreak |-> Max(1, g), streakBroken |-> FALSE]
           /\ (l # NoDate /\ DayOf(a) = DayOf(l))
              => r = [currentStreak |-> c, longestStreak |-> g, streakBroken |-> FALSE]
           /\ (l # NoDate /\ DayOf(a) # DayOf(l) /\ a - l <= 48)
              => r = [currentStreak |-> c + 1, longestStreak |-> Max(c + 1, g),
                      streakBroken |-> FALSE]
           /\ (l # NoDate /\ a - l > 48)
              => r = [currentStreak |-> 1, longestStreak |-> g, streakBroken |-> TRUE]

C11_Witness ==
    /\ ret.fn = "calculateStreak"
    /\ call.lastActivityDate # NoDate
    /\ call.activityDate - call.lastActivityDate = 48
    /\ call.currentStreak = 2 /\ call.longestStreak = 2
    /\ ret.value.currentStreak = 3 /\ ret.value.longestStreak = 3

\* C12: calculateStreak increments the streak and does not break it when
\* the new activity falls on the calendar day two days after the day of the
\* last activity, whatever the two times of day
C12_OneSkippedDayTolerated ==
    (/\ ret.fn = "calculateStreak"
     /\ call.lastActivityDate # NoDate
     /\ DayOf(call.activityDate) = DayOf(call.lastActivityDate) + 2)
    => /\ ~ret.value.streakBroken
       /\ ret.value.currentStreak = call.currentStreak + 1

Min(a, b) == IF a <= b THEN a ELSE b

\* C13: calculateUserLevel(totalXpForUserLevel(L)) = L, and
\* calculateSkillLevel(totalXpForSkillLevel(L), maxLevel) = min(L, maxLevel);
\* the skill level computed for any XP never exceeds maxLevel
C13_LevelRoundTrip ==
    /\ ret.fn = "calculateUserLevel"
       => \A L \in 1..MaxUserLevel :
             call.totalXp = totalXpForUserLevel(L) => ret.value = L
    /\ ret.fn = "calculateSkillLevel"
       => /\ \A L \in 1..MaxSkillLevel :
                call.currentXp = totalXpForSkillLevel(L)
                    => ret.value = Min(L, call.maxLevel)
          /\ ret.value <= call.maxLevel

C13_Witness ==
    /\ ret.fn = "calculateSkillLevel"
    /\ call.currentXp = totalXpForSkillLevel(5)
    /\ call.maxLevel = 3
    /\ ret.value = 3

\* C14: checkNewAchievements returns exactly the ids that are not in the
\* earned list and whose condition holds on the snapshot, each once; an
\* earned id is never returned
C14_OnlyNewAchievements ==
    ret.fn = "checkNewAchievements"
    => LET ids == {ret.value[i] : i \in 1..Len(ret.value)}
           defs == {ACHIEVEMENT_DEFINITIONS[i] : i \in 1..Len(ACHIEVEMENT_DEFINITIONS)}
       IN  /\ ids = {id \in defs : id \notin call.earnedAchievementIds
                                   /\ checkCondition(id, call.data)}
           /\ Cardinality(ids) = Len(ret.value)
           /\ ids \cap call.earnedAchievementIds = {}

C14_Witness ==
    /\ ret.fn = "checkNewAchievements"
    /\ "first-skill" \in call.earnedAchievementIds
    /\ checkCondition("first-skill", call.data)
    /\ checkCondition("first-task", call.data)
    /\ "first-task" \notin call.earnedAchievementIds
    /\ \E i \in 1..Len(ret.value) : ret.value[i] = "first-task"

\* the achievement ids a handler's checkNewAchievements returned
Detected(p) == loc[p].granted \cup {loc[p].newAch[i] : i \in 1..Len(loc[p].newAch)}

\* C15: UserAchievement rows are never removed, and two concurrent
\* completions of the same user that both detect the same new achievement
\* both succeed
C15_ConcurrentGrantsSucceed ==
    /\ \A p \in Procs : Finished(p) => pre[p].userAchievements \subseteq userAchievements
    /\ (/\ Finished(1) /\ Finished(2)
        /\ Detected(1) \cap Detected(2) # {})
       => Ok(1) /\ Ok(2)

\* the caller's tasks among the listed ids that the call newly completes
FreshTasks(p) ==
    {t \in req[p].taskIds \cap DOMAIN pre[p].tasks :
        /\ TaskOwner(pre[p].tasks, t) = SessionUser(p)
        /\ ~pre[p].tasks[t].completedAt}
FreshOfSkill(p, s) == {t \in FreshTasks(p) : pre[p].tasks[t].skillId = s}

C17_BulkOneActivity ==
    \A p \in Procs : (Ok(p) /\ req[p].kind = "bulk") =>
        LET u == SessionUser(p)
            gained == users[u].totalXP - pre[p].users[u].totalXP
        IN  activities = pre[p].activities
                            (+) SetToBag({Activity("TASK_COMPLETE", u, "none", "none", gained)})

C17_Witness ==
    \E p \in Procs :
        /\ Ok(p) /\ req[p].kind = "bulk"
        /\ Cardinality(FreshTasks(p)) = 3
        /\ Cardinality({pre[p].tasks[t].skillId : t \in FreshTasks(p)}) = 2
        /\ BagCardinality(activities) = BagCardinality(pre[p].activities) + 1

\* C18: two concurrent completeTask calls for two different tasks of one
\* skill that both succeed leave the skill's currentXP at its initial value
\* plus both awards, and the skill COMPLETED if no task of it is left
\* incomplete
C18_NoLostSkillUpdate ==
    (/\ Ok(1) /\ Ok(2)
     /\ req[1].kind = "single" /\ req[2].kind = "single"
     /\ req[1].taskId # req[2].taskId
     /\ loc[1].skillId = loc[2].skillId)
    => LET s == loc[1].skillId IN
       /\ skills[s].currentXP
             = pre[1].skills[s].currentXP + loc[1].xpAwarded + loc[2].xpAwarded
       /\ (\A t \in TasksOfSkill(tasks, s) : tasks[t].completedAt)
             => skills[s].status = "COMPLETED"

\* C19: no completion request of user U changes a Task, Skill, Activity,
\* UserAchievement or User row of another user; completeTask on a task U
\* does not own answers Forbidden and writes nothing; completeTasksBulk
\* completes no listed task that U does not own
C19_OtherUsersUntouched ==
    \A p \in Procs :
        LET u == SessionUser(p) IN
        /\ \A t \in DOMAIN tasks \ {NewTaskId} :
              TaskOwner(tasks, t) # u => tasks[t] = InitTasks[t]
        /\ \A s \in SkillIds : SkillOwner(s) # u => skills[s] = InitSkills("AVAILABLE")[s]
        /\ \A o \in Users \ {u} : users[o] = UserRow
        /\ \A a \in BagToSet(activities) : a.userId = u
        /\ \A ua \in userAchievements : ua[1] = u
        /\ (/\ Finished(p) /\ req[p].kind = "single"
            /\ req[p].taskId \in DOMAIN pre[p].tasks
            /\ TaskOwner(pre[p].tasks, req[p].taskId) # u)
           => result[p] = "Forbidden" /\ Store = pre[p]
        /\ (Finished(p) /\ req[p].kind = "bulk")
           => \A t \in req[p].taskIds \cap DOMAIN tasks :
                 TaskOwner(tasks, t) # u => ~tasks[t].completedAt

C19_Witness ==
    \E p \in Procs :
        /\ Ok(p) /\ req[p].kind = "bulk"
        /\ "d1" \in req[p].taskIds
        /\ FreshTasks(p) # {}
        /\ \A t \in FreshTasks(p) : tasks[t].completedAt

\* C20: the step that deletes a skill tree sets its owner's totalXP to the
\* previous totalXP minus the xpReward of the tree's completed tasks, not
\* below 0, and the level to calculateUserLevel of that total
C20_DeleteDeductsCompletedXP ==
    [][\A tr \in TreeIds :
          (tr \in Trees /\ tr \notin Trees')
          => LET u == TreeOwner(tr)
                 treeSkills == {s \in DOMAIN skills : SkillTree(s) = tr}
                 newTotalXP == Max(0, users[u].totalXP - XpToDeduct(tasks, treeSkills))
             IN  /\ users'[u].totalXP = newTotalXP
                 /\ users'[u].level = calculateUserLevel(newTotalXP)]_vars

\* the order of the SkillStatus enum
Rank(st) ==
    CASE st = "LOCKED" -> 0
      [] st = "AVAILABLE" -> 1
      [] st = "IN_PROGRESS" -> 2
      [] st = "COMPLETED" -> 3
      [] st = "MASTERED" -> 4

\* C21: no step moves the stored status of a skill backwards in the order
\* LOCKED < AVAILABLE < IN_PROGRESS < COMPLETED; a skill that was unlocked is
\* not written back to LOCKED from a snapshot loaded before the unlock
C21_StatusNeverRegresses ==
    [][\A s \in DOMAIN skills \cap DOMAIN skills' :
          Rank(skills'[s].status) >= Rank(skills[s].status)]_vars

\* C22: no skill is COMPLETED while one of its prerequisites is neither
\* COMPLETED nor MASTERED: completing the tasks of a LOCKED skill does not
\* make it COMPLETED
C22_CompletedHasPrerequisitesDone ==
    \A s \in DOMAIN skills :
        skills[s].status = "COMPLETED"
        => \A pr \in Prerequisites(s) \cap DOMAIN skills : IsDone(skills[pr].status)

\* C23: every change of a skill's stored status is LOCKED -> AVAILABLE,
\* AVAILABLE -> IN_PROGRESS or IN_PROGRESS -> COMPLETED; no skill becomes
\* MASTERED, none goes from LOCKED or AVAILABLE directly to COMPLETED
C23_OnlyStatedTransitions ==
    [][\A s \in DOMAIN skills \cap DOMAIN skills' :
          skills'[s].status # skills[s].status
          => <<skills[s].status, skills'[s].status>>
                \in {<<"LOCKED", "AVAILABLE">>, <<"AVAILABLE", "IN_PROGRESS">>,
                     <<"IN_PROGRESS", "COMPLETED">>}]_vars

\* the unlock check of a bulk completion runs for skill s in the step that
\* writes the update of s, when s newly became COMPLETED
BulkCheckRuns(l, s) ==
    BulkNewStatus(l, s) = "COMPLETED" /\ l.snapSkills[s].status # "COMPLETED"

\* C24: in a bulk completion the prerequisite check that unlocks dependents
\* runs, once for each skill that newly became COMPLETED, only when the
\* update of every skill of the batch has been written
C24_UnlockAfterAllSkillUpdates ==
    [][\A p \in Procs :
          \A s \in loc'[p].updatedSkills \ loc[p].updatedSkills :
              BulkCheckRuns(loc[p], s) => loc'[p].pendingSkills = {}]_vars

\* C25: the unlock step writes only to a dependent whose stored status is
\* LOCKED at the time of the write, also when another invocation unlocked or
\* progressed the dependent meanwhile, and the skills a handler adds to its
\* list of unlocked skills are the ones it moved from LOCKED to AVAILABLE
C25_UnlockOnlyLockedDependents ==
    [][\A p \in Procs :
          \A d \in loc'[p].unlockedSkills \ loc[p].unlockedSkills :
              /\ skills[d].status = "LOCKED"
              /\ (pc[p] = "s_depUpd" => skills'[d].status = "AVAILABLE")]_vars

\* C26: in every state the level of every user is calculateUserLevel of the
\* user's totalXP and the currentLevel of every skill is calculateSkillLevel
\* of its currentXP and maxLevel, whatever the interleaving of single
\* completions, bulk completions and tree deletions
C26_LevelsMatchXP ==
    /\ \A u \in Users : users[u].level = calculateUserLevel(users[u].totalXP)
    /\ \A s \in DOMAIN skills :
          skills[s].currentLevel
              = calculateSkillLevel(skills[s].currentXP, skills[s].maxLevel)

C26_Witness ==
    /\ Ok(2) /\ req[2].kind = "delete"
    /\ "t1" \notin Trees
    /\ pre[2].users["u1"].level = 2
    /\ \E s \in DOMAIN pre[2].skills : pre[2].skills[s].currentLevel = 2
    /\ users["u1"].totalXP < pre[2].users["u1"].totalXP
    /\ users["u1"].level = 1

\* C27: a successful completeTask appends one TASK_COMPLETE row whose
\* xpGained is the XP awarded, one LEVEL_UP row iff the user's level rose in
\* the call, one skill-completion row iff the skill became COMPLETED in the
\* call, and nothing else; the rows stored before stay as they were
C27_SingleActivities ==
    \A p \in Procs : (Ok(p) /\ req[p].kind = "single") =>
        LET u == SessionUser(p)
            s == loc[p].skillId
        IN  activities
              = pre[p].activities
                (+) SetToBag({Activity("TASK_COMPLETE", u, s, req[p].taskId, loc[p].xpAwarded)})
                (+) (IF users[u].level > pre[p].users[u].level
                     THEN SetToBag({Activity("LEVEL_UP", u, "none", "none", 0)})
                     ELSE EmptyBag)
                (+) (IF skills[s].status = "COMPLETED" /\ pre[p].skills[s].status # "COMPLETED"
                     THEN SetToBag({Activity("SKILL_UNLOCKED", u, s, "none", 0)})
                     ELSE EmptyBag)

\* C28: when tasks of one tree were completed (singly, with or without an
\* evaluated submission, or in bulk, their xpReward edited or not) and the
\* tree is then deleted, the user's totalXP and level are again what they
\* were before those completions
C28_DeleteRestoresXP ==
    \A p \in Procs :
        (Ok(p) /\ req[p].kind = "delete" /\ TreeOwner(req[p].treeId) = "u1")
        => /\ users["u1"].totalXP = UserRow.totalXP
           /\ users["u1"].level = UserRow.level

\* C29: in every state the user's longestStreak is at least currentStreak
\* and currentStreak is at least 1 once lastActiveAt is set; no step lowers
\* longestStreak, for any interleaving of single and bulk completions
C29_StreakInvariants ==
    /\ [](\A u \in Users :
             /\ users[u].longestStreak >= users[u].currentStreak
             /\ users[u].lastActiveAt # NoDate => users[u].currentStreak >= 1)
    /\ [][\A u \in Users : users'[u].longestStreak >= users[u].longestStreak]_vars

\* C30: the tasks completed one at a time with completeTask, without
\* submission, leave the same Task completion flags, Skill currentXP,
\* currentLevel and status, user totalXP, level and streak, and the same
\* granted achievements as one completeTasksBulk call for the same tasks
C30_BulkEqualsOneByOne ==
    Ok(1) =>
        LET completed == {t \in DOMAIN tasks : tasks[t].completedAt}
            bulk == BulkOutcome(InitStore, completed, "u1", now)
        IN  /\ \A t \in DOMAIN tasks : tasks[t].completedAt = bulk.tasks[t].completedAt
            /\ \A s \in DOMAIN skills :
                  /\ skills[s].currentXP = bulk.skills[s].currentXP
                  /\ skills[s].currentLevel = bulk.skills[s].currentLevel
                  /\ skills[s].status = bulk.skills[s].status
            /\ users["u1"].totalXP = bulk.users["u1"].totalXP
            /\ users["u1"].level = bulk.users["u1"].level
            /\ users["u1"].currentStreak = bulk.users["u1"].currentStreak
            /\ users["u1"].longestStreak = bulk.users["u1"].longestStreak
            /\ userAchievements = bulk.userAchievements

====
